---- MODULE Spec2Model ----
(***************************************************************************)
(* Model of the import run of supabase_csv_importer:                       *)
(*   main.py          SupabaseImporter.import_file / main                  *)
(*   db_importer.py   DatabaseImporter (pool, optimize, import, restore)   *)
(*   progress_tracker.py ProgressTracker                                   *)
(*                                                                         *)
(* Thread 0 is the calling (main) thread; threads 1..max_workers are the   *)
(* ThreadPoolExecutor workers.  A database call either succeeds or raises; *)
(* conn.rollback() raises when the server connection is gone, which closes *)
(* the connection.  A file is its lines after the header, each a record or *)
(* an empty line; COPY and csv.DictReader read them as each of them does.  *)
(* Spec is a run without session tuning, RunSpec a run with any options.   *)
(***************************************************************************)
EXTENDS Integers, Sequences, FiniteSets, TLC

\* ---------------------------------------------------------------- bounds
\* files of a job, and rows of a batch of the fallback
MaxFiles == 2
MaxBatch == 2

\* pool sizes and worker counts of the configuration: with them the
\* executor gets no worker, one worker (files queue up) or two (files load
\* concurrently), and parallel_workers may exceed max_connections - 1
ConnChoices == {1, 2, 3}
WorkerChoices == {1, 2}
MinChoices == {1}

\* ------------------------------------------------------ program constants
\* number of SET statements in the optimizations list
NumSets == 6

Files == 1..MaxFiles
MainThread == 0
Threads == {MainThread} \cup WorkerChoices
ConnIds == 1..(Cardinality(ConnChoices) + Cardinality(MinChoices) + 1)
NoConn == 0

Min2(a, b) == IF a <= b THEN a ELSE b

VARIABLES
    config,         \* self.config: pool bounds, workers, batch size, optimization flags
    options,        \* options of import_file: parallel, optimize
    file_paths,     \* number of files of the job (files are 1..file_paths)
    columns,        \* number of columns of the header line (and of the table)
    fileLines,      \* the lines of each file after its header
    tempFiles,      \* the chunk files of the splitter that exist on disk
    mainpc,         \* position of the calling thread in import_file / import_files
    seqIdx,         \* loop index of _import_files_sequential
    success_count,  \* success_count of import_files
    importResult,   \* what import_files did: "none", "true", "false", "raised"
    jobSuccess,     \* what import_file returned: "none", "true", "false"
    nextFile,       \* head of the executor's work queue (parallel mode)
    th,             \* per thread: the frame of the database call it is in
    poolIdle,       \* ThreadedConnectionPool._pool
    poolUsed,       \* ThreadedConnectionPool._used
    poolLog,        \* what the pool has been observed to do (errors raised, releases)
    file,           \* per file: state of its load, outcome, committed rows
    progress,       \* ProgressTracker: total_rows, bytes_processed
    db,             \* database: triggers of the table, tuned session, tuning outcome
    optTx,          \* uncommitted effects of the optimize / restore transaction
    splitter,       \* FileSplitter.split_file: its locals and the chunk files written
    tuner,          \* PerformanceOptimizer: local_specs, arguments, returned settings
    tracker         \* a ProgressTracker shared by worker threads: lock, counters, callers

\* the variables of the import run
mainVars == <<config, options, file_paths, columns, fileLines, tempFiles, mainpc,
              seqIdx, success_count,
              importResult, jobSuccess, nextFile, th, poolIdle, poolUsed, poolLog,
              file, progress, db, optTx>>

vars == <<splitter, tuner, tracker, mainVars>>

\* ------------------------------------------------------------------ inputs

\* A line after the header is a record ("rec") with one field per column,
\* or is empty ("blank").
Recs(n) == [i \in 1..n |-> "rec"]

\* The files of a job: growing files, files shrinking down to a header-only
\* file (import_directory sorts largest first), files with an empty line.
FileProfiles ==
    { [f \in Files |-> Recs(f + 1)],
      [f \in Files |-> Recs(MaxFiles - f)],
      [f \in Files |-> <<"rec", "blank">> \o Recs(f - 1)] }

HasBlank(lines) == \E i \in 1..Len(lines) : lines[i] = "blank"

\* os.path.getsize(file_path): header line plus body lines, one unit each
FileSize(f) == 1 + Len(fileLines[f])

\* COPY ... FROM STDIN WITH (FORMAT CSV): an empty line is a row of one NULL
\* field; the server rejects it (missing data for column) unless the table
\* has a single column
CopyAccepts(f) == HasBlank(fileLines[f]) => columns = 1

\* cursor.rowcount after copy_expert: every line loaded as a row
CopyRowcount(f) == Len(fileLines[f])

IsRecord(kind) == kind # "blank"

\* csv.DictReader(f): the header is the first line, empty lines are skipped
DictReaderRows(f) == SelectSeq(fileLines[f], IsRecord)

IdleFrame ==
    [pc |-> "idle", file |-> 0, conn |-> NoConn, closed |-> FALSE,
     tx |-> "idle", txRows |-> 0, copyWord |-> FALSE, step |-> "none",
     rows_imported |-> 0, pos |-> 0, exc |-> FALSE, ret |-> "none"]

NewFile ==
    [state |-> "Pending", outcome |-> "none", table |-> 0, loads |-> 0,
     fallbacks |-> 0, counted |-> 0, bytes |-> 0, via |-> "none"]

\* disable_triggers, run_vacuum, run_analyze as the three performance
\* levels set them (m is the multiplier 0.5, 0.75, 1.0 in quarters); the
\* first is also what the defaults of .get() give
OptimizationFlags ==
    { [disable_triggers |-> m > 2, run_vacuum |-> m < 4, run_analyze |-> TRUE] :
        m \in {2, 3, 4} }

Configs ==
    { [max_connections |-> mx, min_connections |-> mn, parallel_workers |-> pw,
       batch_size |-> bs, disable_triggers |-> o.disable_triggers,
       run_vacuum |-> o.run_vacuum, run_analyze |-> o.run_analyze] :
        mx \in ConnChoices, mn \in MinChoices, pw \in WorkerChoices,
        bs \in 1..MaxBatch, o \in OptimizationFlags }

Options == [parallel : BOOLEAN, optimize : BOOLEAN]

MainInit ==
    /\ config \in Configs
    /\ options \in Options
    \* settings nobody reads in this run are pinned
    /\ (~options.optimize) => (~config.disable_triggers /\ config.run_vacuum)
    /\ (~options.parallel) => (config.parallel_workers = 1)
    /\ (~options.parallel) => (config.max_connections = 1)
    /\ file_paths \in 0..MaxFiles
    /\ fileLines \in FileProfiles
    \* files_to_import: the chunks split_file wrote, or the one source file
    /\ tempFiles \in {1..file_paths} \cup (IF file_paths = 1 THEN {{}} ELSE {})
    /\ columns \in {1, 2}
    /\ (\A f \in Files : ~HasBlank(fileLines[f])) => columns = 2
    /\ mainpc = IF options.optimize THEN "opt_getconn" ELSE "import_files"
    /\ seqIdx = 0
    /\ success_count = 0
    /\ importResult = "none"
    /\ jobSuccess = "none"
    /\ nextFile = 1
    /\ th = [t \in Threads |-> IdleFrame]
    \* the constructor opens min_connections connections
    /\ poolIdle = 1..config.min_connections
    /\ poolUsed = {}
    /\ poolLog = [exhausted |-> FALSE, badPut |-> FALSE]
    /\ file = [f \in Files |-> NewFile]
    /\ progress = [total_rows |-> 0, bytes_processed |-> 0]
    /\ db = [triggersDisabled |-> FALSE, settings |-> 0, tunedConn |-> NoConn,
             tuning |-> "none", restore |-> "none"]
    /\ optTx = [sets |-> 0, trig |-> "same"]

\* the import run: no split_file call, tuner or stand-alone tracker in it
IdleSplitter == [pc |-> "idle"]
IdleTuner == [pc |-> "idle"]
IdleTracker == [pc |-> "idle"]

Init ==
    /\ MainInit
    /\ splitter = IdleSplitter
    /\ tuner = IdleTuner
    /\ tracker = IdleTracker

\* ------------------------------------------------------- connection pool
\* psycopg2's ThreadedConnectionPool as DatabaseImporter uses it: getconn
\* pops an idle connection, else opens one unless max_connections are in
\* use; putconn keeps up to min_connections open idle connections.

HeldConns == { th[t].conn : t \in { u \in Threads : th[u].conn # NoConn } }

FreshConn == CHOOSE c \in ConnIds : c \notin (poolIdle \cup poolUsed) /\
                 \A d \in ConnIds : d \notin (poolIdle \cup poolUsed) => c <= d

\* the connection a successful getconn hands out
PoolTakes(c) ==
    /\ IF poolIdle # {}
       THEN c = CHOOSE x \in poolIdle : \A y \in poolIdle : x >= y
       ELSE Cardinality(poolUsed) # config.max_connections /\ c = FreshConn
    /\ poolIdle' = poolIdle \ {c}
    /\ poolUsed' = poolUsed \cup {c}
    /\ UNCHANGED poolLog

\* getconn raises: the pool is exhausted (PoolError), or the connect fails
PoolRaises ==
    /\ poolIdle = {}
    /\ poolLog' = [poolLog EXCEPT !.exhausted =
                      @ \/ Cardinality(poolUsed) = config.max_connections]
    /\ UNCHANGED <<poolIdle, poolUsed>>

\* putconn keeps the connection open if fewer than min_connections are idle,
\* else closes it; the session of a closed connection, and what was SET in
\* it, is gone
Putconn(c, closed) ==
    LET kept == Cardinality(poolIdle) < config.min_connections /\ ~closed
    IN  /\ poolUsed' = poolUsed \ {c}
        /\ poolIdle' = IF kept THEN poolIdle \cup {c} ELSE poolIdle
        /\ poolLog' = [poolLog EXCEPT !.badPut = @ \/ c \notin poolUsed]
        /\ db' = IF ~kept /\ c = db.tunedConn
                 THEN [db EXCEPT !.settings = 0, !.tunedConn = NoConn]
                 ELSE db

\* ------------------------------------------------- decisions of the code

\* (variant: parallel dispatch whenever it is asked for)
ParallelWhenAsked == options.parallel

\* use_parallel and total_files > 1
UseParallel == options.parallel /\ file_paths > 1

\* (variant: the worker count without the cap by the pool size)
UncappedWorkers == config.parallel_workers

MaxWorkers == Min2(config.parallel_workers, config.max_connections - 1)

\* (variant: success as soon as some file loaded)
AnySucceeded(count, total) == count > 0

\* success_count == len(file_paths)
AllSucceeded(count, total) == count = total

FallbackEligible(copyWord) == copyWord

BatchFull(len, batch_size) == len >= batch_size

\* (variant: the release placed after the handler instead of in a finally)
ReleaseUnlessRaised(exc) == ~exc

\* the finally clause runs on every exit, with or without an exception
ReleaseOnExit(exc) == TRUE

\* (variant: the handler without its conn.rollback())
NotRolledBack(fr) == fr

\* conn.rollback(): the transaction of the connection is discarded
RolledBack(fr) == [fr EXCEPT !.tx = "idle", !.txRows = 0]

ExitCode(success) == IF success = "true" THEN 0 ELSE 1

\* ------------------------------------------------------- ProgressTracker

add_rows(count) == [progress EXCEPT !.total_rows = @ + count]

add_bytes(count) == [progress EXCEPT !.bytes_processed = @ + count]

\* ------------------------------------------------ _import_single_file

SetFrame(t, fr) == th' = [th EXCEPT ![t] = fr]

\* the call of thread t ends with result res ("true", "false", "raised")
EndCall(t, res) ==
    LET f == th[t].file IN
    /\ th' = [th EXCEPT ![t] = IF t = MainThread
                               THEN [IdleFrame EXCEPT !.pc = "returned", !.ret = res]
                               ELSE IdleFrame]
    /\ file' = [file EXCEPT ![f].outcome = res,
                            ![f].state = IF @ = "Committed" THEN @ ELSE "Failed"]

\* an exception reaches the except clause of _import_single_file
ToExcept(t, step, copyWord, tx) ==
    /\ SetFrame(t, [th[t] EXCEPT !.pc = "except", !.step = step,
                                 !.copyWord = copyWord, !.tx = tx])
    /\ file' = [file EXCEPT ![th[t].file].state = "BulkCopyFailed"]

FileGetconn(t) ==
    /\ th[t].pc = "getconn"
    /\ \/ /\ \E c \in ConnIds : PoolTakes(c) /\
                 SetFrame(t, [th[t] EXCEPT !.conn = c, !.pc = "bulk_copy"])
          /\ UNCHANGED file
       \/ PoolRaises /\ EndCall(t, "raised")
    /\ UNCHANGED <<splitter, tuner, tracker, config, options, file_paths, columns, fileLines, tempFiles, mainpc, seqIdx,
                   success_count, importResult, jobSuccess, nextFile, progress,
                   db, optTx>>

FileLocal == <<splitter, tuner, tracker, config, options, file_paths, columns, fileLines, tempFiles, mainpc, seqIdx,
               success_count, importResult, jobSuccess, nextFile, poolIdle,
               poolUsed, poolLog, db, optTx>>

\* the steps of the try block, and whether the message of an exception
\* raised there can hold the word COPY: an OSError names the path of the
\* file, a server error during COPY may carry "CONTEXT:  COPY ..."
TrySteps == {"set_timeout", "open_file", "copy", "commit"}

CopyWordAt(step) == IF step \in {"open_file", "copy"} THEN BOOLEAN ELSE {FALSE}

\* transaction status of the connection when the step raises
TxAfterFailure(step) == IF step = "open_file" THEN "intrans" ELSE "inerror"

\* conn.commit() makes the rows of the transaction part of the table
Committed(f, rows, via) ==
    [file EXCEPT ![f].table = @ + rows, ![f].loads = @ + 1,
                 ![f].state = "Committed", ![f].via = via]

\* the try block up to conn.commit(): SET statement_timeout, getsize and
\* open, copy_expert, commit; any of them may raise
BulkCopy(t) ==
    /\ th[t].pc = "bulk_copy"
    /\ \/ /\ CopyAccepts(th[t].file)
          /\ SetFrame(t, [th[t] EXCEPT !.pc = "add_rows",
                                       !.rows_imported = CopyRowcount(th[t].file)])
          /\ file' = Committed(th[t].file, CopyRowcount(th[t].file), "copy")
       \/ \E step \in TrySteps : \E w \in CopyWordAt(step) :
              ToExcept(t, step, w, TxAfterFailure(step))
    /\ UNCHANGED <<FileLocal, progress>>

AddRows(t) ==
    /\ th[t].pc = "add_rows"
    /\ progress' = add_rows(th[t].rows_imported)
    /\ file' = [file EXCEPT ![th[t].file].counted = @ + th[t].rows_imported]
    /\ SetFrame(t, [th[t] EXCEPT !.pc = "add_bytes"])
    /\ UNCHANGED FileLocal

AddBytes(t) ==
    /\ th[t].pc = "add_bytes"
    /\ progress' = add_bytes(FileSize(th[t].file))
    /\ file' = [file EXCEPT ![th[t].file].bytes = @ + FileSize(th[t].file)]
    /\ SetFrame(t, [th[t] EXCEPT !.pc = "putconn", !.ret = "true"])
    /\ UNCHANGED FileLocal

\* except clause: rollback, then the fallback if the message names COPY
Except(t) ==
    /\ th[t].pc = "except"
    /\ \/ /\ ~th[t].closed
          /\ IF FallbackEligible(th[t].copyWord)
             THEN /\ SetFrame(t, [RolledBack(th[t]) EXCEPT !.pc = "bi_loop",
                                     !.step = "none", !.copyWord = FALSE])
                  /\ file' = [file EXCEPT ![th[t].file].state = "BatchInsertAttempt",
                                          ![th[t].file].fallbacks = @ + 1]
             ELSE /\ SetFrame(t, [RolledBack(th[t]) EXCEPT !.pc = "putconn",
                                     !.step = "none", !.ret = "false"])
                  /\ UNCHANGED file
       \/ /\ SetFrame(t, [th[t] EXCEPT !.pc = "putconn", !.closed = TRUE,
                                       !.step = "none", !.copyWord = FALSE,
                                       !.exc = TRUE])
          /\ UNCHANGED file
    /\ UNCHANGED <<FileLocal, progress>>

\* ------------------------------------------- _import_with_batch_insert

\* `for row in reader: batch.append(row)` from row pos on, until the batch
\* is full or the file ends: <<rows read so far, len(batch)>>
RECURSIVE FillBatch(_, _, _, _)
FillBatch(pos, len, rows, batch_size) ==
    IF pos = rows THEN <<pos, len>>
    ELSE IF BatchFull(len + 1, batch_size) THEN <<pos + 1, len + 1>>
    ELSE FillBatch(pos + 1, len + 1, rows, batch_size)

\* the batch insert loop up to its next _insert_batch (a full batch inside
\* the loop, or the remaining rows after it); reading, _insert_batch may raise.
\* The loop has no commit: commitEach is FALSE in the code.
BiBatchWith(t, commitEach) ==
    /\ th[t].pc = "bi_loop"
    /\ LET r == FillBatch(th[t].pos, 0, Len(DictReaderRows(th[t].file)),
                          config.batch_size)
           len == r[2]
       IN  IF len > 0
           THEN \/ /\ SetFrame(t, [th[t] EXCEPT
                          !.pc = IF BatchFull(len, config.batch_size)
                                 THEN "bi_loop" ELSE "bi_commit",
                          !.tx = IF commitEach THEN "idle" ELSE "intrans",
                          !.txRows = IF commitEach THEN 0 ELSE @ + len,
                          !.rows_imported = @ + len, !.pos = r[1]])
                   /\ progress' = add_rows(len)
                   /\ file' = [file EXCEPT
                                 ![th[t].file].counted = @ + len,
                                 ![th[t].file].table =
                                     IF commitEach THEN @ + len ELSE @]
                \/ /\ SetFrame(t, [th[t] EXCEPT !.pc = "bi_except", !.tx = "inerror"])
                   /\ UNCHANGED <<progress, file>>
           ELSE \/ /\ SetFrame(t, [th[t] EXCEPT !.pc = "bi_commit"])
                   /\ UNCHANGED <<progress, file>>
                \/ /\ th[t].pos = 0
                   /\ SetFrame(t, [th[t] EXCEPT !.pc = "bi_except"])
                   /\ UNCHANGED <<progress, file>>
    /\ UNCHANGED FileLocal

\* (variant: a commit after every batch)
BiBatchCommitting(t) == BiBatchWith(t, TRUE)

BiBatch(t) == BiBatchWith(t, FALSE)

BiCommit(t) ==
    /\ th[t].pc = "bi_commit"
    /\ \/ /\ SetFrame(t, [th[t] EXCEPT !.pc = "putconn", !.tx = "idle",
                                       !.txRows = 0, !.ret = "true"])
          /\ file' = Committed(th[t].file, th[t].txRows, "batch")
       \/ /\ SetFrame(t, [th[t] EXCEPT !.pc = "bi_except", !.tx = "inerror"])
          /\ UNCHANGED file
    /\ UNCHANGED <<FileLocal, progress>>

BiExcept(t) ==
    /\ th[t].pc = "bi_except"
    /\ \/ /\ ~th[t].closed
          /\ SetFrame(t, [RolledBack(th[t]) EXCEPT !.pc = "putconn", !.ret = "false"])
       \/ SetFrame(t, [th[t] EXCEPT !.pc = "putconn", !.closed = TRUE, !.exc = TRUE])
    /\ UNCHANGED <<FileLocal, progress, file>>

\* finally: self.connection_pool.putconn(conn), then the call returns or raises
FilePutconn(t) ==
    /\ th[t].pc = "putconn"
    /\ IF ReleaseOnExit(th[t].exc)
       THEN Putconn(th[t].conn, th[t].closed)
       ELSE UNCHANGED <<poolIdle, poolUsed, poolLog, db>>
    /\ EndCall(t, IF th[t].exc THEN "raised" ELSE th[t].ret)
    /\ UNCHANGED <<splitter, tuner, tracker, config, options, file_paths, columns, fileLines, tempFiles, mainpc, seqIdx,
                   success_count, importResult, jobSuccess, nextFile, progress,
                   optTx>>

\* ------------------------------------------- import_file, import_files

\* (variant: a call that begins without the file becoming an attempt)
StartCallUnmarked(t, f) ==
    /\ th' = [th EXCEPT ![t] = [IdleFrame EXCEPT !.pc = "getconn", !.file = f]]
    /\ UNCHANGED file

StartCall(t, f) ==
    /\ th' = [th EXCEPT ![t] = [IdleFrame EXCEPT !.pc = "getconn", !.file = f]]
    /\ file' = [file EXCEPT ![f].state = "BulkCopyAttempt"]

\* import_file goes on after import_files: restore if optimize was asked for
AfterImport == IF options.optimize THEN "res_getconn" ELSE "finish"

\* the statements optimize_for_import executes, in order
OptStatements ==
    <<"select">> \o [i \in 1..NumSets |-> "set"] \o
    (IF config.disable_triggers THEN <<"alter">> ELSE <<>>)

\* the statements restore_after_import executes, in order
RestoreStatements ==
    (IF config.disable_triggers THEN <<"enable">> ELSE <<>>) \o
    (IF config.run_vacuum THEN <<"vacuum">>
     ELSE IF config.run_analyze THEN <<"analyze">> ELSE <<>>)

MainLocal == <<splitter, tuner, tracker, config, options, file_paths, columns, fileLines, tempFiles, nextFile, file, progress>>

NoTx == [sets |-> 0, trig |-> "same"]

\* an exception leaves import_file through its except clause: return False
Fatal ==
    /\ jobSuccess' = "false"
    /\ mainpc' = "done"

OptGetconn ==
    /\ mainpc = "opt_getconn"
    /\ \/ /\ \E c \in ConnIds : PoolTakes(c) /\
                 SetFrame(MainThread, [IdleFrame EXCEPT !.conn = c])
          /\ IF Len(OptStatements) > 0 THEN mainpc' = "opt_stmt" ELSE mainpc' = "opt_commit"
          /\ UNCHANGED <<jobSuccess, db>>
       \/ /\ PoolRaises
          /\ Fatal
          /\ db' = [db EXCEPT !.tuning = "raised"]
          /\ UNCHANGED th
    /\ UNCHANGED <<MainLocal, seqIdx, success_count, importResult, optTx>>

OptStatement ==
    /\ mainpc = "opt_stmt"
    /\ LET k == th[MainThread].pos + 1
           stmt == OptStatements[k]
       IN \/ /\ SetFrame(MainThread, [th[MainThread] EXCEPT !.pos = k, !.tx = "intrans"])
             /\ optTx' = [optTx EXCEPT
                             !.sets = IF stmt = "set" THEN @ + 1 ELSE @,
                             !.trig = IF stmt = "alter" THEN "disable" ELSE @]
             /\ mainpc' = IF k = Len(OptStatements) THEN "opt_commit" ELSE "opt_stmt"
          \/ /\ SetFrame(MainThread, [th[MainThread] EXCEPT !.tx = "inerror"])
             /\ mainpc' = "opt_except"
             /\ UNCHANGED optTx
    /\ UNCHANGED <<MainLocal, seqIdx, success_count, importResult, jobSuccess,
                   poolIdle, poolUsed, poolLog, db>>

OptCommit ==
    /\ mainpc = "opt_commit"
    /\ \/ /\ db' = [db EXCEPT !.settings = optTx.sets,
                              !.tunedConn = th[MainThread].conn,
                              !.triggersDisabled = IF optTx.trig = "disable" THEN TRUE ELSE @,
                              !.tuning = "committed"]
          /\ optTx' = NoTx
          /\ SetFrame(MainThread, [th[MainThread] EXCEPT !.tx = "idle"])
          /\ mainpc' = "opt_putconn"
       \/ /\ SetFrame(MainThread, [th[MainThread] EXCEPT !.tx = "inerror"])
          /\ mainpc' = "opt_except"
          /\ UNCHANGED <<db, optTx>>
    /\ UNCHANGED <<MainLocal, seqIdx, success_count, importResult, jobSuccess,
                   poolIdle, poolUsed, poolLog>>

OptExcept ==
    /\ mainpc = "opt_except"
    /\ \/ /\ ~th[MainThread].closed
          /\ SetFrame(MainThread, RolledBack(th[MainThread]))
          /\ db' = [db EXCEPT !.tuning = "rolled_back"]
       \/ /\ SetFrame(MainThread, [th[MainThread] EXCEPT !.closed = TRUE, !.exc = TRUE])
          /\ db' = [db EXCEPT !.tuning = "raised"]
    /\ optTx' = NoTx
    /\ mainpc' = "opt_putconn"
    /\ UNCHANGED <<MainLocal, seqIdx, success_count, importResult, jobSuccess,
                   poolIdle, poolUsed, poolLog>>

OptPutconn ==
    /\ mainpc = "opt_putconn"
    /\ IF ReleaseOnExit(th[MainThread].exc)
       THEN Putconn(th[MainThread].conn, th[MainThread].closed)
       ELSE UNCHANGED <<poolIdle, poolUsed, poolLog, db>>
    /\ SetFrame(MainThread, IdleFrame)
    /\ IF th[MainThread].exc
       THEN Fatal
       ELSE mainpc' = "import_files" /\ UNCHANGED jobSuccess
    /\ UNCHANGED <<MainLocal, seqIdx, success_count, importResult, optTx>>

ImportFiles ==
    /\ mainpc = "import_files"
    /\ IF file_paths = 0
       THEN /\ importResult' = "true"
            /\ mainpc' = AfterImport
            /\ UNCHANGED <<jobSuccess, seqIdx>>
       ELSE IF UseParallel
            THEN IF MaxWorkers < 1
                 THEN \* ThreadPoolExecutor(max_workers=0) raises ValueError
                      /\ importResult' = "raised"
                      /\ Fatal
                      /\ UNCHANGED seqIdx
                 ELSE /\ mainpc' = "par_wait"
                      /\ UNCHANGED <<importResult, jobSuccess, seqIdx>>
            ELSE /\ mainpc' = "seq_loop"
                 /\ seqIdx' = 1
                 /\ UNCHANGED <<importResult, jobSuccess>>
    /\ UNCHANGED <<MainLocal, success_count, th, poolIdle, poolUsed, poolLog, db, optTx>>

SeqNext ==
    /\ mainpc = "seq_loop"
    /\ IF seqIdx <= file_paths
       THEN /\ StartCall(MainThread, seqIdx)
            /\ mainpc' = "seq_call"
            /\ UNCHANGED importResult
       ELSE /\ importResult' = IF AllSucceeded(success_count, file_paths)
                               THEN "true" ELSE "false"
            /\ mainpc' = AfterImport
            /\ UNCHANGED <<th, file>>
    /\ UNCHANGED <<splitter, tuner, tracker, config, options, file_paths, columns, fileLines, tempFiles, nextFile, progress, seqIdx,
                   success_count, jobSuccess, poolIdle, poolUsed, poolLog, db, optTx>>

SeqReturn ==
    /\ mainpc = "seq_call"
    /\ th[MainThread].pc = "returned"
    /\ SetFrame(MainThread, IdleFrame)
    /\ IF th[MainThread].ret = "raised"
       THEN /\ importResult' = "raised"
            /\ Fatal
            /\ UNCHANGED <<seqIdx, success_count>>
       ELSE /\ success_count' = IF th[MainThread].ret = "true"
                                THEN success_count + 1 ELSE success_count
            /\ seqIdx' = seqIdx + 1
            /\ mainpc' = "seq_loop"
            /\ UNCHANGED <<importResult, jobSuccess>>
    /\ UNCHANGED <<MainLocal, poolIdle, poolUsed, poolLog, db, optTx>>

\* a worker of the executor takes the next submitted file
WorkerTake(t) ==
    /\ mainpc = "par_wait"
    /\ t \in 1..MaxWorkers
    /\ th[t].pc = "idle"
    /\ nextFile <= file_paths
    /\ StartCall(t, nextFile)
    /\ nextFile' = nextFile + 1
    /\ UNCHANGED <<splitter, tuner, tracker, config, options, file_paths, columns, fileLines, tempFiles, progress, mainpc, seqIdx,
                   success_count, importResult, jobSuccess, poolIdle, poolUsed,
                   poolLog, db, optTx>>

\* the as_completed loop and the end of the with block
ParJoin ==
    /\ mainpc = "par_wait"
    /\ \A f \in 1..file_paths : file[f].outcome # "none"
    /\ LET n == Cardinality({ f \in 1..file_paths : file[f].outcome = "true" })
       IN /\ success_count' = n
          /\ importResult' = IF AllSucceeded(n, file_paths) THEN "true" ELSE "false"
    /\ mainpc' = AfterImport
    /\ UNCHANGED <<MainLocal, seqIdx, jobSuccess, th, poolIdle, poolUsed, poolLog,
                   db, optTx>>

ResGetconn ==
    /\ mainpc = "res_getconn"
    /\ \/ /\ \E c \in ConnIds : PoolTakes(c) /\
                 SetFrame(MainThread, [IdleFrame EXCEPT !.conn = c])
          /\ IF Len(RestoreStatements) > 0 THEN mainpc' = "res_stmt" ELSE mainpc' = "res_commit"
          /\ UNCHANGED <<jobSuccess, db>>
       \/ /\ PoolRaises
          /\ Fatal
          /\ db' = [db EXCEPT !.restore = "raised"]
          /\ UNCHANGED th
    /\ UNCHANGED <<MainLocal, seqIdx, success_count, importResult, optTx>>

\* VACUUM cannot run inside a transaction block, and the connection is not
\* in autocommit mode: the statement always raises
StatementCanSucceed(stmt) == stmt # "vacuum"

ResStatement ==
    /\ mainpc = "res_stmt"
    /\ LET k == th[MainThread].pos + 1
           stmt == RestoreStatements[k]
       IN \/ /\ StatementCanSucceed(stmt)
             /\ SetFrame(MainThread, [th[MainThread] EXCEPT !.pos = k, !.tx = "intrans"])
             /\ optTx' = [optTx EXCEPT !.trig = IF stmt = "enable" THEN "enable" ELSE @]
             /\ mainpc' = IF k = Len(RestoreStatements) THEN "res_commit" ELSE "res_stmt"
          \/ /\ SetFrame(MainThread, [th[MainThread] EXCEPT !.tx = "inerror"])
             /\ mainpc' = "res_except"
             /\ UNCHANGED optTx
    /\ UNCHANGED <<MainLocal, seqIdx, success_count, importResult, jobSuccess,
                   poolIdle, poolUsed, poolLog, db>>

ResCommit ==
    /\ mainpc = "res_commit"
    /\ \/ /\ db' = [db EXCEPT !.triggersDisabled = IF optTx.trig = "enable" THEN FALSE ELSE @,
                              !.restore = "committed"]
          /\ optTx' = NoTx
          /\ SetFrame(MainThread, [th[MainThread] EXCEPT !.tx = "idle"])
          /\ mainpc' = "res_putconn"
       \/ /\ SetFrame(MainThread, [th[MainThread] EXCEPT !.tx = "inerror"])
          /\ mainpc' = "res_except"
          /\ UNCHANGED <<db, optTx>>
    /\ UNCHANGED <<MainLocal, seqIdx, success_count, importResult, jobSuccess,
                   poolIdle, poolUsed, poolLog>>

ResExcept ==
    /\ mainpc = "res_except"
    /\ \/ /\ ~th[MainThread].closed
          /\ SetFrame(MainThread, RolledBack(th[MainThread]))
          /\ db' = [db EXCEPT !.restore = "rolled_back"]
       \/ /\ SetFrame(MainThread, [th[MainThread] EXCEPT !.closed = TRUE, !.exc = TRUE])
          /\ db' = [db EXCEPT !.restore = "raised"]
    /\ optTx' = NoTx
    /\ mainpc' = "res_putconn"
    /\ UNCHANGED <<MainLocal, seqIdx, success_count, importResult, jobSuccess,
                   poolIdle, poolUsed, poolLog>>

ResPutconn ==
    /\ mainpc = "res_putconn"
    /\ IF ReleaseOnExit(th[MainThread].exc)
       THEN Putconn(th[MainThread].conn, th[MainThread].closed)
       ELSE UNCHANGED <<poolIdle, poolUsed, poolLog, db>>
    /\ SetFrame(MainThread, IdleFrame)
    /\ IF th[MainThread].exc
       THEN Fatal
       ELSE mainpc' = "finish" /\ UNCHANGED jobSuccess
    /\ UNCHANGED <<MainLocal, seqIdx, success_count, importResult, optTx>>

\* `if len(files_to_import) > 1`: every file of the list is removed
RemovedAtCleanup == IF file_paths > 1 THEN 1..file_paths ELSE {}

\* cleanup, summary, `return success`
Finish ==
    /\ mainpc = "finish"
    /\ tempFiles' = tempFiles \ RemovedAtCleanup
    /\ jobSuccess' = importResult
    /\ mainpc' = "done"
    /\ UNCHANGED <<splitter, tuner, tracker, config, options, file_paths, columns, fileLines, nextFile, file,
                   progress, seqIdx, success_count, importResult, th, poolIdle,
                   poolUsed, poolLog, db, optTx>>

\* import_files and what follows it when no tuning was asked for
ImportNext ==
    \/ ImportFiles
    \/ SeqNext
    \/ SeqReturn
    \/ \E t \in Threads : WorkerTake(t)
    \/ ParJoin
    \/ \E t \in Threads : FileGetconn(t)
    \/ \E t \in Threads : BulkCopy(t)
    \/ \E t \in Threads : AddRows(t)
    \/ \E t \in Threads : AddBytes(t)
    \/ \E t \in Threads : Except(t)
    \/ \E t \in Threads : BiBatch(t)
    \/ \E t \in Threads : BiCommit(t)
    \/ \E t \in Threads : BiExcept(t)
    \/ \E t \in Threads : FilePutconn(t)
    \/ Finish

TuningNext ==
    \/ OptGetconn
    \/ OptStatement
    \/ OptCommit
    \/ OptExcept
    \/ OptPutconn
    \/ ResGetconn
    \/ ResStatement
    \/ ResCommit
    \/ ResExcept
    \/ ResPutconn

Next == ImportNext \/ TuningNext

\* a run with --no-optimize-db: import_files, then the return of import_file
InitNoOptimize == Init /\ ~options.optimize

Spec == InitNoOptimize /\ [][ImportNext]_vars

\* a run with any options
RunSpec == Init /\ [][Next]_vars

\* ------------------------------------------------------------ properties

\* C1: failure isolation.  Once import_file is over, every file of the job
\* has been attempted and is Committed or Failed, however the other files
\* ended; stated here for sequential dispatch.
C1_EveryFileResolved ==
    (mainpc = "done" /\ ~UseParallel) =>
        \A f \in 1..file_paths : file[f].state \in {"Committed", "Failed"}

\* C2: every connection checked out by _import_single_file,
\* optimize_for_import or restore_after_import is given back exactly once on
\* every exit path: the connections checked out are exactly those held by a
\* call in progress, no two calls hold the same connection, putconn is never
\* called for a connection that is not checked out, and once import_files is
\* over no connection is checked out.
C2_ConnectionsReturned ==
    /\ poolUsed = HeldConns
    /\ poolIdle \cap poolUsed = {}
    /\ \A t, u \in Threads :
          (t # u /\ th[t].conn # NoConn) => th[t].conn # th[u].conn
    /\ ~poolLog.badPut
    /\ mainpc \in {"res_getconn", "finish", "done"} => poolUsed = {}

\* C2 case: a file whose fallback failed and whose rollback then raised,
\* after a tuning that committed; the run is over and nothing is checked out
C2_RaisedInHandlerAndReturned ==
    /\ mainpc = "done"
    /\ db.tuning = "committed"
    /\ \E f \in Files : file[f].outcome = "raised" /\ file[f].fallbacks = 1
    /\ poolUsed = {}

\* C3: at most one load per file.  A file is committed at most once and by
\* one path only; the fallback is attempted at most once per file; it starts
\* on a connection whose bulk-copy transaction was rolled back, with nothing
\* of the file committed; the table never holds more rows of a file than
\* one load of it gives.
C3_AtMostOneLoad ==
    /\ \A f \in Files :
          /\ file[f].loads <= 1
          /\ file[f].fallbacks <= 1
          /\ file[f].loads = 0 => file[f].table = 0 /\ file[f].via = "none"
          /\ file[f].via = "copy" => file[f].table = CopyRowcount(f)
          /\ file[f].via = "batch" => file[f].table = Len(DictReaderRows(f))
    /\ \A t \in Threads :
          th[t].pc \in {"bi_loop", "bi_commit", "bi_except"} =>
              /\ file[th[t].file].loads = 0
              /\ file[th[t].file].fallbacks = 1
              /\ (th[t].pc = "bi_loop" /\ th[t].pos = 0) =>
                     (th[t].tx = "idle" /\ th[t].txRows = 0)

\* C3 case: a file committed by the fallback, after its bulk copy failed
\* inside COPY and was rolled back
C3_CommittedByFallback ==
    \E f \in Files :
        /\ file[f].state = "Committed"
        /\ file[f].via = "batch"
        /\ file[f].fallbacks = 1
        /\ file[f].table > 1

C5_ExitCodeIsImportResult ==
    (mainpc = "done" /\ importResult \in {"true", "false"}) =>
        /\ importResult = "true" <=>
              \A f \in 1..file_paths : file[f].state = "Committed"
        /\ ExitCode(jobSuccess) = 0 <=> importResult = "true"

\* C6: in a finished job where some file failed and every other file
\* succeeded, the job result is false, the outcome of exactly the files that
\* loaded is success, and the rows each of them loaded are all committed and
\* all counted by the ProgressTracker.
C6_PartialFailure ==
    (/\ mainpc = "done"
     /\ \E f \in 1..file_paths : file[f].state = "Failed"
     /\ \A f \in 1..file_paths : file[f].state \in {"Committed", "Failed"}) =>
        /\ jobSuccess = "false"
        /\ \A f \in 1..file_paths :
              /\ file[f].outcome = "true" <=> file[f].state = "Committed"
              /\ file[f].state = "Committed" =>
                    /\ file[f].table = file[f].counted
                    /\ file[f].table = IF file[f].via = "copy"
                                       THEN CopyRowcount(f)
                                       ELSE Len(DictReaderRows(f))
        /\ progress.total_rows >=
              IF file_paths = 0 THEN 0
              ELSE LET committed(f) == IF file[f].state = "Committed"
                                       THEN file[f].table ELSE 0
                       sum[n \in 0..file_paths] ==
                           IF n = 0 THEN 0 ELSE sum[n - 1] + committed(n)
                   IN sum[file_paths]

\* C6 case: a finished job of two or more files in which exactly one failed
\* and the others loaded rows
C6_OneFailedOthersLoaded ==
    /\ mainpc = "done"
    /\ file_paths > 1
    /\ Cardinality({ f \in 1..file_paths : file[f].state = "Failed" }) = 1
    /\ \A f \in 1..file_paths :
          file[f].state = "Committed" \/ file[f].state = "Failed"
    /\ \E f \in 1..file_paths : file[f].state = "Committed" /\ file[f].counted > 0

\* C7: in parallel dispatch the number of imports in flight, and so of
\* connections checked out, never exceeds min(parallel_workers,
\* max_connections - 1); it stays below max_connections, and no worker asks
\* an exhausted pool for a connection.
C7_WorkersBelowPool ==
    LET inFlight == Cardinality({ t \in Threads \ {MainThread} : th[t].pc # "idle" })
    IN  mainpc = "par_wait" =>
            /\ inFlight <= config.parallel_workers
            /\ inFlight <= config.max_connections - 1
            /\ Cardinality(poolUsed) <= inFlight
            /\ Cardinality(poolUsed) < config.max_connections
            /\ ~poolLog.exhausted

\* C7 case: two imports in flight, both holding a connection, on a pool
\* whose configured worker count is not the binding limit
C7_TwoInFlight ==
    /\ mainpc = "par_wait"
    /\ Cardinality({ t \in Threads \ {MainThread} : th[t].conn # NoConn }) = 2
    /\ Cardinality(poolUsed) = config.max_connections - 1

\* C9: a file committed by the fallback adds to the table and to
\* ProgressTracker.total_rows as many rows as a successful bulk copy of the
\* same file adds.
C9_FallbackRowsEqualCopyRows ==
    \A f \in Files :
        (file[f].state = "Committed" /\ file[f].via = "batch" /\ CopyAccepts(f)) =>
            /\ file[f].table = CopyRowcount(f)
            /\ file[f].counted = CopyRowcount(f)

\* C10: a failure of session tuning alone never makes the job fail:
\* import_file does not end before import_files has been called.
C10_TuningFailureIsNotFatal ==
    mainpc = "done" => importResult # "none"

\* C11: in every run in which optimize_for_import disabled the triggers of
\* the table, the triggers are enabled again when the run is over.
C11_TriggersEnabledAtEnd ==
    mainpc = "done" => ~db.triggersDisabled

\* C12: session tuning is temporary.  When a run with optimization is over
\* and restore_after_import committed, no session is left with the
\* parameters optimize_for_import SET: each has again the value of the
\* snapshot taken before tuning.
C12_SessionSettingsRestored ==
    (mainpc = "done" /\ db.restore = "committed") => db.settings = 0

\* C13: every chunk file the splitter created for the run has been deleted
\* when import_file returns, for any number of chunks; stated here for the
\* runs in which every chunk loaded.
C13_ChunksDeletedAtEnd ==
    (mainpc = "done" /\ jobSuccess = "true") => tempFiles = {}

\* ============================================================ FileSplitter
\* split_file(file_path, chunk_size_mb): the source is read as text in the
\* encoding detect_encoding guessed from its first megabyte, with
\* errors='replace' and universal newlines; the chunks are written as UTF-8.
\* Sizes are in units of which chunk_size_bytes is a whole number.

MaxLines == 3
MaxLineBytes == 2
MaxThreshold == 4

\* the import run at rest while a component is exercised on its own
ParkedMain ==
    /\ MainInit
    /\ config = CHOOSE c \in Configs : \A d \in Configs :
                   /\ c.max_connections <= d.max_connections
                   /\ c.parallel_workers <= d.parallel_workers
                   /\ c.batch_size <= d.batch_size
                   /\ ~c.disable_triggers /\ c.run_vacuum
    /\ options = [parallel |-> FALSE, optimize |-> FALSE]
    /\ file_paths = 0
    /\ fileLines = [f \in Files |-> Recs(f + 1)]
    /\ columns = 2

\* a body line of the source: its size once encoded as UTF-8, whether the
\* detected encoding decodes its bytes ("plain") or not ("alien"), and its
\* line terminator
SourceLines ==
    [bytes : 1..MaxLineBytes, text : {"plain", "alien"}, eol : {"lf", "crlf"}]

\* detect_encoding decodes the sample it read, so the first body line is plain
SourceBodies ==
    { b \in UNION { [1..n -> SourceLines] : n \in 0..MaxLines } :
        Len(b) > 0 => b[1].text = "plain" }

\* --chunk-size is any integer but 0 (0 falls back to the configuration)
ThresholdChoices == {-1} \cup 1..MaxThreshold

\* infile.readline() / the iteration of infile: bytes the encoding cannot
\* decode become U+FFFD, "\r\n" becomes "\n"
ReadLine(i, line) ==
    [src |-> i,
     text |-> IF line.text = "alien" THEN "replaced" ELSE line.text,
     eol |-> "lf",
     bytes |-> line.bytes]

\* a chunk begins without the header after the first one
NoRepeatedHeader(chunk_num) ==
    IF chunk_num = 1 THEN splitter.header ELSE [bytes |-> 0, text |-> "none"]

\* current_chunk_file.write(header)
WrittenHeader(chunk_num) == splitter.header

\* the chunk is closed only once its size is over the threshold
ChunkOverThreshold(current_chunk_size) ==
    current_chunk_size > splitter.chunk_size_bytes

\* current_chunk_size >= chunk_size_bytes
ChunkFull(current_chunk_size) ==
    current_chunk_size >= splitter.chunk_size_bytes

SplitInit ==
    /\ ParkedMain
    /\ tuner = IdleTuner
    /\ tracker = IdleTracker
    /\ \E h \in 1..MaxLineBytes, b \in SourceBodies, t \in ThresholdChoices :
          splitter = [pc |-> "loop",
                      header |-> [bytes |-> h, text |-> "plain"],
                      lines |-> b,
                      chunk_size_bytes |-> t,
                      line_num |-> 0,
                      chunk_num |-> 0,
                      chunk_files |-> <<>>,
                      current_chunk_file |-> 0,
                      current_chunk_size |-> 0]

\* one iteration of "for line_num, line in enumerate(infile, start=1)"
SplitLine ==
    /\ splitter.pc = "loop"
    /\ splitter.line_num < Len(splitter.lines)
    /\ LET n == splitter.line_num + 1
           line == ReadLine(n, splitter.lines[n])
           fresh == splitter.current_chunk_file = 0
                        \/ ChunkFull(splitter.current_chunk_size)
           num == IF fresh THEN splitter.chunk_num + 1 ELSE splitter.chunk_num
           files == IF fresh
                    THEN Append(splitter.chunk_files,
                                [header |-> WrittenHeader(num), body |-> <<>>])
                    ELSE splitter.chunk_files
           size == IF fresh THEN splitter.header.bytes
                   ELSE splitter.current_chunk_size
       IN  splitter' = [splitter EXCEPT
                          !.line_num = n,
                          !.chunk_num = num,
                          !.current_chunk_file = num,
                          !.chunk_files =
                              [files EXCEPT ![num].body = Append(@, line)],
                          !.current_chunk_size = size + line.bytes]
    /\ UNCHANGED <<tuner, tracker, mainVars>>

\* the iteration is over: close the last chunk, return chunk_files
SplitReturn ==
    /\ splitter.pc = "loop"
    /\ splitter.line_num = Len(splitter.lines)
    /\ splitter' = [splitter EXCEPT !.pc = "done", !.current_chunk_file = 0]
    /\ UNCHANGED <<tuner, tracker, mainVars>>

SplitNext == SplitLine \/ SplitReturn

SplitSpec == SplitInit /\ [][SplitNext]_vars

\* ------------------------------------------------- FileSplitter properties

RECURSIVE ConcatBodies(_)
ConcatBodies(chunks) ==
    IF chunks = <<>> THEN <<>>
    ELSE Head(chunks).body \o ConcatBodies(Tail(chunks))

RECURSIVE SumBytes(_)
SumBytes(ls) == IF ls = <<>> THEN 0 ELSE Head(ls).bytes + SumBytes(Tail(ls))

\* size of a chunk file, and its size before its last line was written
ChunkBytes(c) == c.header.bytes + SumBytes(c.body)
BytesBeforeLast(c) == ChunkBytes(c) - c.body[Len(c.body)].bytes

\* C14: once split_file has returned, the bodies of the chunks, concatenated
\* in the returned order, are the body lines of the source: line i of the
\* result is line i of the source with the text of that line (the line
\* terminators are not compared).
C14_SplitRoundTrip ==
    splitter.pc = "done" =>
        LET out == ConcatBodies(splitter.chunk_files)
        IN  /\ Len(out) = Len(splitter.lines)
            /\ \A i \in 1..Len(out) :
                  /\ out[i].src = i
                  /\ out[i].text = splitter.lines[i].text

\* C15: every chunk file begins with the header line of the source and has
\* at least one body line after it, and a source without body lines gives
\* no chunk.
C15_HeaderAndNonEmpty ==
    splitter.pc # "idle" =>
        /\ \A k \in 1..Len(splitter.chunk_files) :
              /\ splitter.chunk_files[k].header = splitter.header
              /\ Len(splitter.chunk_files[k].body) >= 1
        /\ (splitter.pc = "done" /\ splitter.lines = <<>>)
              => splitter.chunk_files = <<>>

C15_SeveralChunks ==
    /\ splitter.pc = "done"
    /\ Len(splitter.chunk_files) >= 2

\* C16 as stated: every chunk but the last reached the threshold with its
\* last line only: before that line its size was below the threshold (so
\* the chunk did not start at or over the threshold), after it it is not.
C16_ClaimedBound ==
    splitter.pc = "done" =>
        \A k \in 1..(Len(splitter.chunk_files) - 1) :
            LET c == splitter.chunk_files[k]
            IN  /\ BytesBeforeLast(c) < splitter.chunk_size_bytes
                /\ ChunkBytes(c) >= splitter.chunk_size_bytes

\* C16 as the code has it: the bound holds when the header line is smaller
\* than the threshold; when the header alone reaches the threshold every
\* chunk starts at or over it and holds exactly one body line.
C16_BoundWhenHeaderFits ==
    splitter.pc = "done" =>
        \A k \in 1..(Len(splitter.chunk_files) - 1) :
            LET c == splitter.chunk_files[k]
            IN  /\ ChunkBytes(c) >= splitter.chunk_size_bytes
                /\ IF splitter.header.bytes < splitter.chunk_size_bytes
                   THEN BytesBeforeLast(c) < splitter.chunk_size_bytes
                   ELSE Len(c.body) = 1

C16_SplitAtThreshold ==
    /\ splitter.pc = "done"
    /\ splitter.header.bytes < splitter.chunk_size_bytes
    /\ Len(splitter.chunk_files) >= 2
    /\ Len(splitter.chunk_files[1].body) >= 2
    /\ ChunkBytes(splitter.chunk_files[1]) = splitter.chunk_size_bytes

\* ==================================================== PerformanceOptimizer
\* Memory is counted in half gigabytes and the multiplier in quarters, so
\* that every product the code forms is a whole number of quarters and
\* int() is the integer part of it.

Max2(a, b) == IF a >= b THEN a ELSE b

\* INSTANCE_SPECS: memory_gb (in half gigabytes), cpu_cores, tier
INSTANCE_SPECS ==
    <<[name |-> "Nano",   memory_half_gb |-> 1,   cpu_cores |-> 1,  tier |-> "shared"],
      [name |-> "Micro",  memory_half_gb |-> 2,   cpu_cores |-> 2,  tier |-> "dedicated"],
      [name |-> "Small",  memory_half_gb |-> 4,   cpu_cores |-> 2,  tier |-> "dedicated"],
      [name |-> "Medium", memory_half_gb |-> 8,   cpu_cores |-> 2,  tier |-> "dedicated"],
      [name |-> "Large",  memory_half_gb |-> 16,  cpu_cores |-> 2,  tier |-> "dedicated"],
      [name |-> "XL",     memory_half_gb |-> 32,  cpu_cores |-> 4,  tier |-> "dedicated"],
      [name |-> "2XL",    memory_half_gb |-> 64,  cpu_cores |-> 8,  tier |-> "dedicated"],
      [name |-> "4XL",    memory_half_gb |-> 128, cpu_cores |-> 16, tier |-> "dedicated"],
      [name |-> "8XL",    memory_half_gb |-> 256, cpu_cores |-> 32, tier |-> "dedicated"],
      [name |-> "12XL",   memory_half_gb |-> 384, cpu_cores |-> 48, tier |-> "dedicated"],
      [name |-> "16XL",   memory_half_gb |-> 512, cpu_cores |-> 64, tier |-> "dedicated"]>>

\* PERFORMANCE_LEVELS: multiplier 0.5, 0.75, 1.0 in quarters
PERFORMANCE_LEVELS ==
    <<[name |-> "Conservative", multiplier4 |-> 2],
      [name |-> "Balanced",     multiplier4 |-> 3],
      [name |-> "Aggressive",   multiplier4 |-> 4]>>

\* _get_local_specs: the machine the importer runs on, as it is when the
\* optimizer is constructed: one core, few cores, more cores than any
\* instance; available memory in gigabytes
LocalSpecs == [cpu_cores : {1, 2, 5, 65}, available_memory_gb : {2, 8, 64}]

\* the evaluations of a tuner that are compared
Evaluations == {1, 2}
NoResult == [instance_size |-> 0]

\* a number of quarters rounded to the nearest integer, halves upwards
RoundQuarters(q) == (q + 2) \div 4

\* int(x) of a non-negative number of quarters
IntQuarters(q) == q \div 4

\* _calculate_work_mem: int(instance_memory * 1024 * (0.05 + 0.05 * m))
calculate_work_mem(instance_memory, m4) ==
    LET work_mem == (instance_memory * 512 * (4 + m4)) \div 80
    IN  Max2(64, Min2(work_mem, 1024))

\* _calculate_chunk_size: limiting_memory = min(instance, local * 0.5)
calculate_chunk_size(instance_memory, local_memory, m4) ==
    LET limiting_memory == Min2(instance_memory, local_memory)
        chunk_size == IF limiting_memory < 4 THEN IntQuarters(200 + 50 * m4)
                      ELSE IF limiting_memory < 16 THEN IntQuarters(400 + 100 * m4)
                      ELSE IntQuarters(800 + 300 * m4)
    IN  Min2(chunk_size, 1000)

\* _calculate_batch_size: int(base * (1 + multiplier))
calculate_batch_size(instance_memory, m4) ==
    LET base == IF instance_memory < 4 THEN 1000
                ELSE IF instance_memory < 16 THEN 5000 ELSE 10000
    IN  IntQuarters(base * (4 + m4))

\* _calculate_timeout: minutes = int((chunk_size_mb / 50) * (2 - m) * 10)
calculate_timeout(chunk_size_mb, m4) ==
    LET minutes == (chunk_size_mb * (8 - m4)) \div 20
    IN  IF minutes <= 30 THEN "30min" ELSE IF minutes <= 60 THEN "1h" ELSE "2h"

\* _calculate_settings(instance, perf) with self.local_specs
calculate_settings(instance, perf, local_specs) ==
    LET multiplier4 == perf.multiplier4
        instance_memory == instance.memory_half_gb
        instance_cores == instance.cpu_cores
        local_memory == local_specs.available_memory_gb
        local_cores == local_specs.cpu_cores
        max_connections ==
            IF instance.tier = "shared"
            THEN IntQuarters(5 * multiplier4)
            ELSE Min2(IntQuarters(40 + (instance_cores * 2) * multiplier4), 50)
        parallel_workers ==
            IF instance.tier = "shared"
            THEN 1
            ELSE Min2(IntQuarters(instance_cores * multiplier4),
                      Min2(local_cores - 1, max_connections - 2))
        work_mem == calculate_work_mem(instance_memory, multiplier4)
        chunk_size_mb == calculate_chunk_size(instance_memory, local_memory,
                                              multiplier4)
    IN  [min_connections |-> Max2(2, parallel_workers),
         max_connections |-> max_connections,
         chunk_size_mb |-> chunk_size_mb,
         batch_size |-> calculate_batch_size(instance_memory, multiplier4),
         parallel_workers |-> parallel_workers,
         work_mem |-> work_mem,
         maintenance_work_mem |-> work_mem * 4,
         statement_timeout |-> calculate_timeout(chunk_size_mb, multiplier4),
         disable_triggers |-> multiplier4 > 2,
         run_vacuum |-> multiplier4 < 4,
         run_analyze |-> TRUE]

TunerInit ==
    /\ ParkedMain
    /\ splitter = IdleSplitter
    /\ tracker = IdleTracker
    /\ tuner = [pc |-> "new", local_specs |-> [cpu_cores |-> 0, available_memory_gb |-> 0],
                calls |-> 0, results |-> [e \in Evaluations |-> NoResult]]

\* PerformanceOptimizer(): __init__ reads the local machine
TunerConstruct ==
    /\ tuner.pc \in {"new", "ready"}
    /\ tuner.calls < Cardinality(Evaluations)
    /\ \E l \in LocalSpecs :
          tuner' = [tuner EXCEPT !.pc = "ready", !.local_specs = l]
    /\ UNCHANGED <<splitter, tracker, mainVars>>

\* get_optimized_settings(instance_size, performance_level)
GetOptimizedSettings ==
    /\ tuner.pc = "ready"
    /\ tuner.calls < Cardinality(Evaluations)
    /\ \E instance_size \in DOMAIN INSTANCE_SPECS,
          performance_level \in DOMAIN PERFORMANCE_LEVELS :
          tuner' = [tuner EXCEPT
                      !.calls = @ + 1,
                      !.results[tuner.calls + 1] =
                          [instance_size |-> instance_size,
                           performance_level |-> performance_level,
                           local_specs |-> tuner.local_specs,
                           settings |-> calculate_settings(
                                            INSTANCE_SPECS[instance_size],
                                            PERFORMANCE_LEVELS[performance_level],
                                            tuner.local_specs)]]
    /\ UNCHANGED <<splitter, tracker, mainVars>>

TunerNext == TunerConstruct \/ GetOptimizedSettings

TunerSpec == TunerInit /\ [][TunerNext]_vars

\* ------------------------------------------ PerformanceOptimizer properties

Evaluated == { e \in Evaluations : tuner.pc # "idle" /\ tuner.results[e] # NoResult }

\* C17: every profile the tuner returns has max_connections <= 50,
\* parallel_workers <= max_connections - 1 and parallel_workers <= local
\* CPU cores - 1.
C17_ProfileWithinLimits ==
    \A e \in Evaluated :
        LET r == tuner.results[e]
        IN  /\ r.settings.max_connections <= 50
            /\ r.settings.parallel_workers <= r.settings.max_connections - 1
            /\ r.settings.parallel_workers <= r.local_specs.cpu_cores - 1

\* C18: two evaluations with the same hardware tier and the same level
\* return the same profile, whatever the local machine was at each of them.
C18_SameInputsSameProfile ==
    \A e1, e2 \in Evaluated :
        (/\ tuner.results[e1].instance_size = tuner.results[e2].instance_size
         /\ tuner.results[e1].performance_level = tuner.results[e2].performance_level)
            => tuner.results[e1].settings = tuner.results[e2].settings

\* x is an integer nearest to q quarters (a half may go either way)
IsNearest(x, q) == (4 * x - q) \in -2..2

\* x is q quarters with the fraction dropped
IsIntegerPart(x, q) == 4 * x <= q /\ q < 4 * x + 4

\* the profile of result r follows the formulas of the two tiers, Rounds
\* being the relation between a number of quarters and its integer value
FollowsFormulas(r, Rounds(_, _)) ==
    LET instance == INSTANCE_SPECS[r.instance_size]
        m4 == PERFORMANCE_LEVELS[r.performance_level].multiplier4
        cores == instance.cpu_cores
        s == r.settings
    IN  IF instance.tier = "shared"
        THEN /\ Rounds(s.max_connections, 5 * m4)
             /\ s.parallel_workers = 1
        ELSE /\ \E a \in 0..(10 + 2 * cores) :
                   /\ Rounds(a, 40 + 2 * cores * m4)
                   /\ s.max_connections = Min2(a, 50)
             /\ \E b \in 0..cores :
                   /\ Rounds(b, cores * m4)
                   /\ s.parallel_workers =
                          Min2(b, Min2(r.local_specs.cpu_cores - 1,
                                       s.max_connections - 2))

\* C19 as stated: max_connections and parallel_workers are the formulas of
\* the two tiers with every product rounded to the nearest integer.
C19_ClaimedNearest ==
    \A e \in Evaluated : FollowsFormulas(tuner.results[e], IsNearest)

\* C19 as the code has it: the same formulas with int(), which drops the
\* fraction: shared max_connections = int(5*m), dedicated max_connections =
\* min(int(10 + 2*cores*m), 50), parallel_workers = min(int(cores*m),
\* local_cores - 1, max_connections - 2).
C19_FormulasWithInt ==
    \A e \in Evaluated : FollowsFormulas(tuner.results[e], IsIntegerPart)

\* a profile in which dropping the fraction and rounding differ
C19_FractionDropped ==
    \E e \in Evaluated :
        LET r == tuner.results[e]
        IN  /\ INSTANCE_SPECS[r.instance_size].tier = "shared"
            /\ PERFORMANCE_LEVELS[r.performance_level].multiplier4 = 3
            /\ r.settings.max_connections = 3

\* ========================================================= ProgressTracker
\* N worker threads share one ProgressTracker; each calls add_rows(a) and
\* then add_bytes(b), k times.  "self.x += count" is a read of the
\* attribute and a later write of it; "with self._lock" is around both.

MaxTrackerWorkers == 2
\* the number of times each worker calls add_rows and add_bytes: once, twice
CallChoices == {1, 2}

TrackerWorkers == 1..MaxTrackerWorkers
NoHolder == 0

\* the threads that call get_stats and update_status
StatsThread == MaxTrackerWorkers + 1
StatusThread == MaxTrackerWorkers + 2

\* the get_stats calls that are compared
Snapshots == {1, 2}
NoSnapshot == [total_rows |-> -1]

\* the thread of get_stats: its position, the values it has read in the
\* current call, and the dictionaries its calls returned
NoStats ==
    [step |-> "acquire", calls |-> 0,
     total_rows |-> 0, bytes_processed |-> 0, current_status |-> "none",
     returned |-> [i \in Snapshots |-> NoSnapshot]]

\* the lock is taken whether or not another thread holds it
LockIgnored(w) == TRUE

\* self._lock.acquire() returns once no thread holds the lock
LockAcquirable(w) == tracker.lock = NoHolder

\* the counter a call updates
CounterOf(call) == IF call = "add_rows" THEN "total_rows" ELSE "bytes_processed"

TrackerInit ==
    /\ ParkedMain
    /\ splitter = IdleSplitter
    /\ tuner = IdleTuner
    /\ \E n \in TrackerWorkers, k \in CallChoices, a \in {1, 2}, b \in {1, 3} :
          tracker = [pc |-> "running",
                     N |-> n, k |-> k,
                     count |-> [add_rows |-> a, add_bytes |-> b],
                     lock |-> NoHolder,
                     total_rows |-> 0,
                     bytes_processed |-> 0,
                     current_status |-> "Initializing...",
                     stats |-> NoStats,
                     status |-> [step |-> "acquire"],
                     worker |-> [w \in TrackerWorkers |->
                                    [call |-> IF w <= n THEN "add_rows" ELSE "absent",
                                     step |-> "acquire", read |-> 0, calls |-> 0]]]

AtStep(w, step) ==
    /\ tracker.pc = "running"
    /\ tracker.worker[w].call \in {"add_rows", "add_bytes"}
    /\ tracker.worker[w].step = step

\* with self._lock: (enter)
TrackerAcquire(w) ==
    /\ AtStep(w, "acquire")
    /\ LockAcquirable(w)
    /\ tracker' = [tracker EXCEPT !.lock = w, !.worker[w].step = "read"]
    /\ UNCHANGED <<splitter, tuner, mainVars>>

\* self.total_rows + count / self.bytes_processed + count
TrackerRead(w) ==
    /\ AtStep(w, "read")
    /\ tracker' = [tracker EXCEPT
                     !.worker[w].read = tracker[CounterOf(tracker.worker[w].call)],
                     !.worker[w].step = "write"]
    /\ UNCHANGED <<splitter, tuner, mainVars>>

\* self.total_rows = ... / self.bytes_processed = ...
TrackerWrite(w) ==
    /\ AtStep(w, "write")
    /\ LET me == tracker.worker[w]
           sum == me.read + tracker.count[me.call]
       IN  tracker' = [tracker EXCEPT
                         !.total_rows = IF me.call = "add_rows" THEN sum ELSE @,
                         !.bytes_processed = IF me.call = "add_bytes" THEN sum ELSE @,
                         !.worker[w].step = "release"]
    /\ UNCHANGED <<splitter, tuner, mainVars>>

\* with self._lock: (exit), the call returns; add_bytes follows add_rows
TrackerRelease(w) ==
    /\ AtStep(w, "release")
    /\ LET me == tracker.worker[w]
           calls == IF me.call = "add_bytes" THEN me.calls + 1 ELSE me.calls
       IN  tracker' = [tracker EXCEPT
                         !.lock = IF @ = w THEN NoHolder ELSE @,
                         !.worker[w] =
                             [call |-> IF me.call = "add_rows" THEN "add_bytes"
                                       ELSE IF calls = tracker.k THEN "returned"
                                       ELSE "add_rows",
                              step |-> "acquire", read |-> 0, calls |-> calls]]
    /\ UNCHANGED <<splitter, tuner, mainVars>>

\* what the tracker holds at this instant
HeldNow ==
    [total_rows |-> tracker.total_rows,
     bytes_processed |-> tracker.bytes_processed,
     current_status |-> tracker.current_status]

\* what the current get_stats call has read
StatsRead ==
    [total_rows |-> tracker.stats.total_rows,
     bytes_processed |-> tracker.stats.bytes_processed,
     current_status |-> tracker.stats.current_status]

\* get_stats reads without waiting for the holder of the lock
StatsLockIgnored == TRUE

\* get_stats: with self._lock
StatsLockAcquirable == tracker.lock = NoHolder

AtStatsStep(step) ==
    /\ tracker.pc = "running"
    /\ tracker.stats.calls < Cardinality(Snapshots)
    /\ tracker.stats.step = step

\* get_stats: with self._lock: (enter)
StatsAcquire ==
    /\ AtStatsStep("acquire")
    /\ StatsLockAcquirable
    /\ tracker' = [tracker EXCEPT !.lock = StatsThread, !.stats.step = "total_rows"]
    /\ UNCHANGED <<splitter, tuner, mainVars>>

\* get_stats: the reads of self.total_rows, self.bytes_processed and
\* self.current_status, in this order
StatsRead1 ==
    /\ AtStatsStep("total_rows")
    /\ tracker' = [tracker EXCEPT !.stats.total_rows = tracker.total_rows,
                                  !.stats.step = "bytes_processed"]
    /\ UNCHANGED <<splitter, tuner, mainVars>>

StatsRead2 ==
    /\ AtStatsStep("bytes_processed")
    /\ tracker' = [tracker EXCEPT !.stats.bytes_processed = tracker.bytes_processed,
                                  !.stats.step = "current_status"]
    /\ UNCHANGED <<splitter, tuner, mainVars>>

StatsRead3 ==
    /\ AtStatsStep("current_status")
    /\ tracker' = [tracker EXCEPT !.stats.current_status = tracker.current_status,
                                  !.stats.step = "return"]
    /\ UNCHANGED <<splitter, tuner, mainVars>>

\* get_stats: return {...}, with self._lock: (exit)
StatsReturn ==
    /\ AtStatsStep("return")
    /\ tracker' = [tracker EXCEPT
                     !.lock = IF @ = StatsThread THEN NoHolder ELSE @,
                     !.stats = [NoStats EXCEPT
                                  !.calls = tracker.stats.calls + 1,
                                  !.returned = [tracker.stats.returned EXCEPT
                                      ![tracker.stats.calls + 1] = StatsRead]]]
    /\ UNCHANGED <<splitter, tuner, mainVars>>

\* update_status(status): with self._lock: self.current_status = status
UpdateStatusAcquire ==
    /\ tracker.pc = "running"
    /\ tracker.status.step = "acquire"
    /\ tracker.lock = NoHolder
    /\ tracker' = [tracker EXCEPT !.lock = StatusThread, !.status.step = "write"]
    /\ UNCHANGED <<splitter, tuner, mainVars>>

UpdateStatusWrite ==
    /\ tracker.pc = "running"
    /\ tracker.status.step = "write"
    /\ tracker' = [tracker EXCEPT !.current_status = "Importing file",
                                  !.lock = NoHolder,
                                  !.status.step = "returned"]
    /\ UNCHANGED <<splitter, tuner, mainVars>>

TrackerNext ==
    \/ \E w \in TrackerWorkers : TrackerAcquire(w)
    \/ \E w \in TrackerWorkers : TrackerRead(w)
    \/ \E w \in TrackerWorkers : TrackerWrite(w)
    \/ \E w \in TrackerWorkers : TrackerRelease(w)
    \/ StatsAcquire
    \/ StatsRead1
    \/ StatsRead2
    \/ StatsRead3
    \/ StatsReturn
    \/ UpdateStatusAcquire
    \/ UpdateStatusWrite

TrackerSpec == TrackerInit /\ [][TrackerNext]_vars

\* ----------------------------------------------- ProgressTracker properties

AllReturned ==
    /\ tracker.pc = "running"
    /\ \A w \in 1..tracker.N : tracker.worker[w].call = "returned"

\* C20: once the N workers have returned from their k calls of add_rows(a)
\* and add_bytes(b), total_rows is N*k*a and bytes_processed is N*k*b: no
\* update was lost.
C20_NoLostUpdates ==
    AllReturned =>
        /\ tracker.total_rows = tracker.N * tracker.k * tracker.count.add_rows
        /\ tracker.bytes_processed = tracker.N * tracker.k * tracker.count.add_bytes

C20_TwoWorkersReturned ==
    /\ AllReturned
    /\ tracker.N >= 2
    /\ tracker.k >= 2

\* C21: the values a get_stats call has read are the values the tracker
\* holds at the instant the call returns (one single instant, nothing
\* changed between its reads); of two calls the later never returns a
\* smaller total_rows or bytes_processed; and the call waits for nothing
\* but the lock of the tracker.
C21_SnapshotAtOneInstant ==
    tracker.pc = "running" =>
        /\ tracker.stats.step \in {"bytes_processed", "current_status", "return"}
              => tracker.stats.total_rows = tracker.total_rows
        /\ tracker.stats.step \in {"current_status", "return"}
              => tracker.stats.bytes_processed = tracker.bytes_processed
        /\ tracker.stats.step = "return" => StatsRead = HeldNow
        /\ (tracker.stats.calls = Cardinality(Snapshots))
              => /\ tracker.stats.returned[2].total_rows
                        >= tracker.stats.returned[1].total_rows
                 /\ tracker.stats.returned[2].bytes_processed
                        >= tracker.stats.returned[1].bytes_processed
        /\ (AtStatsStep("acquire") /\ tracker.lock = NoHolder) => ENABLED StatsAcquire
        /\ AtStatsStep("total_rows") => ENABLED StatsRead1
        /\ AtStatsStep("bytes_processed") => ENABLED StatsRead2
        /\ AtStatsStep("current_status") => ENABLED StatsRead3
        /\ AtStatsStep("return") => ENABLED StatsReturn

\* two snapshots taken while the workers were updating, the second later
\* in the run than the first
C21_TwoSnapshotsDuringUpdates ==
    /\ tracker.pc = "running"
    /\ tracker.stats.calls = Cardinality(Snapshots)
    /\ tracker.stats.returned[1].total_rows > 0
    /\ tracker.stats.returned[2].total_rows > tracker.stats.returned[1].total_rows
    /\ tracker.stats.returned[2].current_status # tracker.stats.returned[1].current_status
    /\ \E w \in 1..tracker.N : tracker.worker[w].call # "returned"

\* ------------------------------------------------ import run, continued

\* rows of the first n files that are committed to the table
RECURSIVE TableRows(_)
TableRows(n) == IF n = 0 THEN 0 ELSE file[n].table + TableRows(n - 1)

\* body lines of the source: the chunks partition them (split_file puts
\* every body line into exactly one chunk)
RECURSIVE SourceBodyRows(_)
SourceBodyRows(n) == IF n = 0 THEN 0 ELSE Len(fileLines[n]) + SourceBodyRows(n - 1)

\* C22: when the chunks of a split file are dispatched in parallel and every
\* chunk ends Committed, the rows committed to the table and the rows
\* counted in ProgressTracker.total_rows are the body rows of the source
\* (stated for chunks that COPY can load, where a body row is what COPY
\* loads as a row).
C22_RowsConserved ==
    (/\ mainpc = "done"
     /\ UseParallel
     /\ \A f \in 1..file_paths : file[f].state = "Committed" /\ CopyAccepts(f))
        => /\ TableRows(file_paths) = SourceBodyRows(file_paths)
           /\ progress.total_rows = SourceBodyRows(file_paths)

Resolved(f) == file[f].state \in {"Committed", "Failed"}

C24_CommitRecordRelease ==
    \A f \in 1..file_paths :
        /\ (file[f].counted > 0 \/ file[f].bytes > 0) => file[f].state = "Committed"
        /\ (file[f].state = "Committed" /\ file[f].outcome # "none") =>
              /\ file[f].counted = file[f].table
              /\ file[f].bytes = FileSize(f)

\* C25: when the except clause of _import_single_file has run, the
\* batch-insert fallback is entered if and only if the step that failed was
\* the bulk copy itself (copy_expert): a failure of any other step never
\* leads to the fallback, a failure of the bulk copy always does.
C25_FallbackIffCopyFailed ==
    [][\A t \in Threads :
          (th[t].pc = "except" /\ th'[t].pc # "except") =>
              ((th'[t].pc = "bi_loop") <=> (th[t].step = "copy"))]_vars

\* C26: a file that is Failed has no row committed to the table, and
\* neither has a file whose load is still in progress; the rows a fallback
\* inserted before it failed are not in the table.
C26_FailedFileHasNoRows ==
    \A f \in 1..file_paths :
        file[f].state # "Committed" => (file[f].table = 0 /\ file[f].loads = 0)

\* a fallback that inserted a batch, failed on a later batch or on the
\* commit, and rolled back: the call has returned False
C26_FallbackFailedAfterBatch ==
    \E f \in 1..file_paths :
        /\ file[f].state = "Failed"
        /\ file[f].outcome = "false"
        /\ file[f].fallbacks = 1
        /\ file[f].counted > 0

\* restore_after_import has been called
RestoreStarted ==
    mainpc \in {"res_stmt", "res_commit", "res_except", "res_putconn"}
        \/ db.restore # "none"

\* optimize_for_import is being executed
OptimizeRunning ==
    mainpc \in {"opt_getconn", "opt_stmt", "opt_commit", "opt_except", "opt_putconn"}

\* C27: no file import starts before optimize_for_import is over;
\* restore_after_import starts only when every file is Committed or Failed;
\* it runs if and only if optimize_for_import applied (committed) its
\* changes in this run; and ENABLE TRIGGER is issued only while the
\* triggers are disabled.
C27_RunOrdering ==
    /\ OptimizeRunning => \A f \in 1..file_paths : file[f].state = "Pending"
    /\ RestoreStarted => \A f \in 1..file_paths : Resolved(f)
    /\ RestoreStarted => db.tuning = "committed"
    /\ (mainpc = "done" /\ db.tuning = "committed") => RestoreStarted
    /\ optTx.trig = "enable" => db.triggersDisabled

\* C28: once import_files has returned, ProgressTracker.total_rows is the
\* number of rows the job committed to the table.
C28_CountedRowsAreCommitted ==
    importResult \in {"true", "false"} =>
        progress.total_rows = TableRows(file_paths)

\* max_workers of _import_files_parallel for the settings of a profile
MaxWorkersOf(settings) ==
    Min2(settings.parallel_workers, settings.max_connections - 1)

\* C29: every profile the tuner returns has parallel_workers >= 1, and the
\* worker pool computed from it, min(parallel_workers, max_connections - 1),
\* has at least one worker.
C29_AtLeastOneWorker ==
    \A e \in Evaluated :
        /\ tuner.results[e].settings.parallel_workers >= 1
        /\ MaxWorkersOf(tuner.results[e].settings) >= 1

\* the connection of thread t is about to be given back by a finally clause
AtRelease(t) ==
    \/ th[t].pc = "putconn"
    \/ t = MainThread /\ mainpc \in {"opt_putconn", "res_putconn"}

\* C30: a connection that optimize_for_import, _import_single_file (its
\* fallback included) or restore_after_import gives back to the pool has no
\* transaction in progress: its last action was a commit or a rollback, or
\* the connection is closed and the pool discards it.
C30_NoTransactionAtRelease ==
    \A t \in Threads :
        AtRelease(t) =>
            \/ th[t].tx = "idle" /\ th[t].txRows = 0
            \/ th[t].closed

\* a fallback that inserted rows, failed and rolled back is at its release
C30_ReleaseAfterRollback ==
    \E t \in Threads :
        /\ th[t].pc = "putconn"
        /\ th[t].ret = "false"
        /\ ~th[t].closed
        /\ th[t].rows_imported > 0
        /\ th[t].tx = "idle"

====
